---- MODULE Spec2Model ----
(***************************************************************************)
(* Model of the thesis-game front end: the App component (App.jsx), which  *)
(* owns the application phase `gameState` and the loaded bundle            *)
(* `gameData`, and the GameBoard component (GameBoard.jsx), which owns the *)
(* session: step pointer, the human's and the machine's outcome, and the   *)
(* timers that drive it.                                                   *)
(*                                                                         *)
(* One action of the model is one browser task: a click, a timer callback  *)
(* or the arrival of the HTTP response, followed by React's rendering and  *)
(* the hooks' effects run until no state update is left (RenderLoop).      *)
(* An effect runs on the first render of a component instance and then     *)
(* only when one of its dependencies changed; all effects of one render    *)
(* read the state of that render (the closure) and their updates are       *)
(* applied together, the last setX(v) winning.                             *)
(*                                                                         *)
(* JavaScript arrays are functions on 0..n-1; null is NULL, undefined      *)
(* (an index outside the array) is UNDEFINED; a missing barrier_type is    *)
(* the empty string (falsy, as null is).                                   *)
(***************************************************************************)
EXTENDS Integers, FiniteSets, Sequences, Bags, TLC

\* ------------------------------------------------------------------ bounds
\* number of decision dates of every bundle the server hands out
NbDates == 3
\* /game/start requests that may be unanswered together
MaxInflight == 1
\* finish timers that may be left pending when a GameBoard is unmounted
MaxStaleFinish == 1
\* hold timers of one GameBoard instance that may be pending together
MaxPendingHolds == 2
\* largest payoff among the records handed to the results screen on its own
MaxPayoff == 2

\* ------------------------------------------------- delays of the timers, ms
\* start effect: the first step
StartDelay == 1000
\* auto-advance effect: one step of the fast-forward
AnimDelay == 500
\* handleHold: between the press and the next step
HoldDelay == 300
\* finishGame: before the results
FinishDelay == 1000

\* ------------------------------------------------------- JavaScript values
NULL == -1
UNDEFINED == -2

\* arr[i] of a JavaScript array: undefined outside the array
At(arr, i) == IF i \in DOMAIN arr THEN arr[i] ELSE UNDEFINED

\* ---------------------------------------------------------------- bundles
\* prices used by the paths: below, between and at the thresholds
Price == [low |-> 1, mid |-> 2, high |-> 3]
Low == Price.low
Mid == Price.mid
High == Price.high

Dates == 0 .. NbDates

\* a price path that is Mid everywhere except value v at date k (k = NbDates+1: nowhere)
Spike(k, v) == [i \in Dates |-> IF i = k THEN v ELSE Mid]
Flat == [i \in Dates |-> Mid]

PayoffsUp == [i \in Dates |-> i]
PayoffsDown == [i \in Dates |-> NbDates + 1 - i]
\* out of the money at date 2
PayoffsZero == [i \in Dates |-> IF i = 2 THEN 0 ELSE i + 1]

GameInfo(name, type, b, bdown, bup) ==
    [name |-> name, nb_dates |-> NbDates, barrier_type |-> type,
     barrier |-> b, barrier_down |-> bdown, barrier_up |-> bup]

Bundle(info, path, payoffs, med, lower, upper) ==
    [game_info |-> info, path |-> path, payoffs_timeline |-> payoffs,
     machine_exercise_date |-> med,
     barrier_path_lower |-> lower, barrier_path_upper |-> upper]

\* no per-date barrier sequence in the bundle
NoSeq == << >>

\* The bundles the server may answer with, one per barrier variant:
\*  - up-and-out on two assets, knocked out at date 2, before the machine's date;
\*  - double barrier, knocked out at the last date, after the machine's date;
\*  - no barrier, the machine exercising at date 2 with payoff 0;
\*  - down-and-out, the barrier already reached at date 0;
\*  - moving double barrier on the basket average: at date 1 the assets are
\*    beyond both barriers and their mean is not, at date 2 the upper barrier
\*    has moved down to the mean, which is also the machine's date.
Bundles ==
    { Bundle(GameInfo("UpAndOutMinPut", "up", High, NULL, NULL),
             <<Flat, Spike(2, High)>>, PayoffsUp, NbDates, NoSeq, NoSeq),
      Bundle(GameInfo("DoubleBarrierMaxCall", "double", NULL, Low, High),
             <<Spike(NbDates, High), Flat>>, PayoffsDown, 1, NoSeq, NoSeq),
      Bundle(GameInfo("Plain", "", NULL, NULL, NULL),
             <<Flat>>, PayoffsZero, 2, NoSeq, NoSeq),
      Bundle(GameInfo("DownAndOutMinPut", "down", Low, NULL, NULL),
             <<Flat, Spike(0, Low)>>, PayoffsUp, NbDates, NoSeq, NoSeq),
      Bundle(GameInfo("DoubleMovingBarrierDispersionCall", "double", NULL, Low, High),
             <<Spike(1, High), Spike(1, Low)>>, PayoffsUp, 2,
             [i \in Dates |-> Low], [i \in Dates |-> IF i = 2 THEN Mid ELSE High]) }

\* gameData before the first response (useState(null))
NoData == [null |-> TRUE]

\* ----------------------------------------------------------- pure helpers
RECURSIVE SumSeq(_)
SumSeq(s) == IF s = << >> THEN 0 ELSE Head(s) + SumSeq(Tail(s))

\* isBarrierHit with the up barrier hit only above the threshold
isBarrierHitStrict(gd, currentStep) ==
    LET info == gd.game_info
        defined == \A a \in DOMAIN gd.path : currentStep \in DOMAIN gd.path[a]
        currentPrices == [a \in DOMAIN gd.path |-> gd.path[a][currentStep]]
        isDispersion == info.name = "DoubleMovingBarrierDispersionCall"
    IN  IF info.barrier_type = "" THEN FALSE
        ELSE IF ~defined THEN FALSE
        ELSE IF info.barrier_type = "up"
             THEN \E a \in DOMAIN currentPrices : currentPrices[a] > info.barrier
        ELSE IF info.barrier_type = "down"
             THEN \E a \in DOMAIN currentPrices :
                    /\ \A o \in DOMAIN currentPrices : currentPrices[a] <= currentPrices[o]
                    /\ currentPrices[a] <= info.barrier
        ELSE IF info.barrier_type = "double"
             THEN IF isDispersion /\ gd.barrier_path_upper # NoSeq /\ gd.barrier_path_lower # NoSeq
                  THEN \* basketAvg >= upper  \/  basketAvg <= lower, without dividing
                       LET sum == SumSeq(currentPrices)
                           n == Len(currentPrices)
                           upperBarrier == At(gd.barrier_path_upper, currentStep)
                           lowerBarrier == At(gd.barrier_path_lower, currentStep)
                       IN  \/ upperBarrier # UNDEFINED /\ sum >= upperBarrier * n
                           \/ lowerBarrier # UNDEFINED /\ sum <= lowerBarrier * n
                  ELSE \/ \E a \in DOMAIN currentPrices : currentPrices[a] >= info.barrier_up
                       \/ \E a \in DOMAIN currentPrices : currentPrices[a] <= info.barrier_down
        ELSE FALSE

\* isBarrierHit with the moving barriers tested on every asset, not on the mean
isBarrierHitPerAsset(gd, currentStep) ==
    LET info == gd.game_info
        defined == \A a \in DOMAIN gd.path : currentStep \in DOMAIN gd.path[a]
        currentPrices == [a \in DOMAIN gd.path |-> gd.path[a][currentStep]]
        isDispersion == info.name = "DoubleMovingBarrierDispersionCall"
    IN  IF info.barrier_type = "" THEN FALSE
        ELSE IF ~defined THEN FALSE
        ELSE IF info.barrier_type = "up"
             THEN \E a \in DOMAIN currentPrices : currentPrices[a] >= info.barrier
        ELSE IF info.barrier_type = "down"
             THEN \E a \in DOMAIN currentPrices :
                    /\ \A o \in DOMAIN currentPrices : currentPrices[a] <= currentPrices[o]
                    /\ currentPrices[a] <= info.barrier
        ELSE IF info.barrier_type = "double"
             THEN IF isDispersion /\ gd.barrier_path_upper # NoSeq /\ gd.barrier_path_lower # NoSeq
                  THEN LET upperBarrier == At(gd.barrier_path_upper, currentStep)
                           lowerBarrier == At(gd.barrier_path_lower, currentStep)
                       IN  \/ /\ upperBarrier # UNDEFINED
                              /\ \E a \in DOMAIN currentPrices : currentPrices[a] >= upperBarrier
                           \/ /\ lowerBarrier # UNDEFINED
                              /\ \E a \in DOMAIN currentPrices : currentPrices[a] <= lowerBarrier
                  ELSE \/ \E a \in DOMAIN currentPrices : currentPrices[a] >= info.barrier_up
                       \/ \E a \in DOMAIN currentPrices : currentPrices[a] <= info.barrier_down
        ELSE FALSE

\* GameBoard.isBarrierHit, for the step of the render that calls it.
\* A price read outside the path is undefined and every comparison with
\* undefined (or with the NaN that Math.min / Math.max / the mean make of
\* it) is false.
isBarrierHit(gd, currentStep) ==
    LET info == gd.game_info
        defined == \A a \in DOMAIN gd.path : currentStep \in DOMAIN gd.path[a]
        currentPrices == [a \in DOMAIN gd.path |-> gd.path[a][currentStep]]
        isDispersion == info.name = "DoubleMovingBarrierDispersionCall"
    IN  IF info.barrier_type = "" THEN FALSE
        ELSE IF ~defined THEN FALSE
        ELSE IF info.barrier_type = "up"
             THEN \E a \in DOMAIN currentPrices : currentPrices[a] >= info.barrier
        ELSE IF info.barrier_type = "down"
             THEN \E a \in DOMAIN currentPrices :
                    /\ \A o \in DOMAIN currentPrices : currentPrices[a] <= currentPrices[o]
                    /\ currentPrices[a] <= info.barrier
        ELSE IF info.barrier_type = "double"
             THEN IF isDispersion /\ gd.barrier_path_upper # NoSeq /\ gd.barrier_path_lower # NoSeq
                  THEN \* basketAvg >= upper  \/  basketAvg <= lower, without dividing
                       LET sum == SumSeq(currentPrices)
                           n == Len(currentPrices)
                           upperBarrier == At(gd.barrier_path_upper, currentStep)
                           lowerBarrier == At(gd.barrier_path_lower, currentStep)
                       IN  \/ upperBarrier # UNDEFINED /\ sum >= upperBarrier * n
                           \/ lowerBarrier # UNDEFINED /\ sum <= lowerBarrier * n
                  ELSE \/ \E a \in DOMAIN currentPrices : currentPrices[a] >= info.barrier_up
                       \/ \E a \in DOMAIN currentPrices : currentPrices[a] <= info.barrier_down
        ELSE FALSE

\* ------------------------------------------------------------------ state
VARIABLES
    gameState,   \* App: 'loading' | 'ready' | 'playing' | 'results' | 'error'
    gameData,    \* App: the bundle of the last response, NoData before it
    inflight,    \* /game/start requests sent and not yet answered
    gb,          \* the hook state of the GameBoard instance, NoBoard if none is mounted
    timers,      \* bag of pending setTimeout callbacks [kind, live, step]
    animTimer,   \* the timer held by animationRef is pending
    lastEvent,   \* the task that produced this state
    screen,      \* what the last render displays
    pending      \* the render before the displayed one while the effects of the
                 \* displayed one have not run yet, NoPending once they have

vars == <<gameState, gameData, inflight, gb, timers, animTimer, lastEvent, screen, pending>>

\* every effect of the displayed render has run
NoPending == [none |-> TRUE]

\* useState initial values of GameBoard
InitialBoard(gd) ==
    [currentStep |-> 0,
     playerDecision |-> "null",
     playerExerciseDate |-> NULL,
     playerPayoff |-> NULL,
     machineExerciseDate |-> gd.machine_exercise_date,
     machinePayoff |-> NULL,
     isAnimating |-> FALSE,
     showMachineDecision |-> FALSE,
     machineDecisionFlash |-> FALSE,
     showGameSelection |-> FALSE,
     revealedUpToStep |-> 0]

\* value of gb while no GameBoard is mounted
NoBoard ==
    [currentStep |-> 0, playerDecision |-> "null", playerExerciseDate |-> NULL,
     playerPayoff |-> NULL, machineExerciseDate |-> NULL, machinePayoff |-> NULL,
     isAnimating |-> FALSE, showMachineDecision |-> FALSE, machineDecisionFlash |-> FALSE,
     showGameSelection |-> FALSE, revealedUpToStep |-> 0]

\* App renders <GameBoard> for these phases once a bundle is loaded
Rendered(gs, gd) == gs \in {"ready", "playing", "results"} /\ gd # NoData

Mounted == Rendered(gameState, gameData)

\* a pending setTimeout callback: `live` while the GameBoard instance that
\* scheduled it is mounted, `step` the currentStep its closure captured
Timer(kind, live, step) == [kind |-> kind, live |-> live, step |-> step]

\* !playerDecision
Undecided(b) == b.playerDecision = "null"

\* ------------------------------------------------- GameBoard: the handlers
\* A handler or effect reads the state c of the render it was created in and
\* adds its updates to w = [gs, b, sched, anim]: the phase, the hook state, the
\* timers it schedules and whether the timer of animationRef is pending.

finishGame(w) == [w EXCEPT !.sched = @ (+) SetToBag({Timer("finish", TRUE, 0)})]

handleBarrierHit(c, gd, w) ==
    LET w1 == [w EXCEPT !.b.playerExerciseDate = c.currentStep,
                        !.b.playerPayoff = 0,
                        !.b.playerDecision = "barrier_hit",
                        !.b.revealedUpToStep = c.currentStep]
    IN  IF c.currentStep < c.machineExerciseDate
        THEN [w1 EXCEPT !.b.isAnimating = TRUE]
        ELSE finishGame([w1 EXCEPT !.b.machinePayoff =
                                      At(gd.payoffs_timeline, c.machineExerciseDate)])

\* handleMaturity recording the date before the last one
handleMaturityBeforeLastDate(c, gd, w) ==
    finishGame([w EXCEPT !.b.playerExerciseDate = gd.game_info.nb_dates - 1,
                         !.b.playerPayoff = At(gd.payoffs_timeline, gd.game_info.nb_dates - 1),
                         !.b.playerDecision = "maturity",
                         !.b.machinePayoff = At(gd.payoffs_timeline, c.machineExerciseDate)])

handleMaturity(c, gd, w) ==
    finishGame([w EXCEPT !.b.playerExerciseDate = gd.game_info.nb_dates,
                         !.b.playerPayoff = At(gd.payoffs_timeline, gd.game_info.nb_dates),
                         !.b.playerDecision = "maturity",
                         !.b.machinePayoff = At(gd.payoffs_timeline, c.machineExerciseDate)])

handleHold(c, gd, w) ==
    IF ~Undecided(c) THEN w
    ELSE IF c.currentStep = gd.game_info.nb_dates THEN handleMaturity(c, gd, w)
    ELSE [w EXCEPT !.b.showMachineDecision = FALSE,
                   !.b.machineDecisionFlash = TRUE,
                   !.sched = @ (+) SetToBag({Timer("hold", TRUE, c.currentStep)})]

\* handleExercise paying the human the payoff of the machine's date
handleExerciseAtMachineDate(c, gd, w) ==
    IF ~Undecided(c) THEN w
    ELSE LET w1 == [w EXCEPT !.b.playerExerciseDate = c.currentStep,
                             !.b.playerPayoff = At(gd.payoffs_timeline, c.machineExerciseDate),
                             !.b.playerDecision = "exercise",
                             !.b.revealedUpToStep = c.currentStep]
         IN  IF c.currentStep >= c.machineExerciseDate
             THEN finishGame([w1 EXCEPT !.b.machinePayoff =
                                           At(gd.payoffs_timeline, c.machineExerciseDate)])
             ELSE [w1 EXCEPT !.b.isAnimating = TRUE]

handleExercise(c, gd, w) ==
    IF ~Undecided(c) THEN w
    ELSE LET w1 == [w EXCEPT !.b.playerExerciseDate = c.currentStep,
                             !.b.playerPayoff = At(gd.payoffs_timeline, c.currentStep),
                             !.b.playerDecision = "exercise",
                             !.b.revealedUpToStep = c.currentStep]
         IN  IF c.currentStep >= c.machineExerciseDate
             THEN finishGame([w1 EXCEPT !.b.machinePayoff =
                                           At(gd.payoffs_timeline, c.machineExerciseDate)])
             ELSE [w1 EXCEPT !.b.isAnimating = TRUE]

\* isPlayerTurn without its test of currentStep > 0
isPlayerTurnFromStepZero(gs, gd, b) ==
    /\ gs = "playing"
    /\ Undecided(b)
    /\ ~b.isAnimating
    /\ b.currentStep <= gd.game_info.nb_dates

\* the flag that enables the HOLD and EXERCISE controls
isPlayerTurn(gs, gd, b) ==
    /\ gs = "playing"
    /\ Undecided(b)
    /\ ~b.isAnimating
    /\ b.currentStep > 0
    /\ b.currentStep <= gd.game_info.nb_dates

\* ------------------------------------------------------ what is displayed
\* JavaScript's a > b on payoffs: null counts as 0, a comparison with
\* undefined is false
ToNumber(v) == IF v = NULL THEN 0 ELSE v

Gt(a, b) == a # UNDEFINED /\ b # UNDEFINED /\ ToNumber(a) > ToNumber(b)

getMachineDecisionText(b) ==
    LET displayStep == b.currentStep - 1
    IN  IF ~b.showMachineDecision THEN "-"
        ELSE IF displayStep < 1 THEN "-"
        ELSE IF displayStep < b.machineExerciseDate THEN "HOLD"
        ELSE IF displayStep = b.machineExerciseDate THEN "EXERCISE"
        ELSE "EXERCISED"

getMachineCurrentPayoff(b) == IF b.machinePayoff # NULL THEN b.machinePayoff ELSE 0

\* StockChart: the step of the MACHINE marker, NULL when none is drawn
MachineMarker(b) ==
    IF b.machineExerciseDate # NULL /\ b.currentStep >= b.machineExerciseDate
    THEN b.machineExerciseDate ELSE NULL

\* StockChart: the step of the YOU marker, NULL when none is drawn
PlayerMarker(b) ==
    IF b.playerExerciseDate # NULL /\ b.currentStep >= b.playerExerciseDate
    THEN b.playerExerciseDate ELSE NULL

\* ResultsDisplay
playerWins(b) == Gt(b.playerPayoff, b.machinePayoff)
\* a tie only between records of the same date
tieAtSameDate(b) ==
    b.playerPayoff = b.machinePayoff /\ b.playerExerciseDate = b.machineExerciseDate

tie(b) == b.playerPayoff = b.machinePayoff
machineWins(b) == Gt(b.machinePayoff, b.playerPayoff)

getWinnerClass(b) ==
    IF tie(b) THEN "tie" ELSE IF playerWins(b) THEN "player" ELSE "machine"

playerHitBarrier(b) == b.playerDecision = "barrier_hit"

\* inferred from the payoff: 0 now and positive at some date up to the
\* machine's exercise date
machineHitBarrier(gd, b) ==
    IF b.machinePayoff # 0 THEN FALSE
    ELSE \E i \in DOMAIN gd.payoffs_timeline :
            i <= b.machineExerciseDate /\ gd.payoffs_timeline[i] > 0

machineBarrierStep(gd, b) ==
    IF machineHitBarrier(gd, b) /\ playerHitBarrier(b)
    THEN b.playerExerciseDate ELSE b.machineExerciseDate

\* the line under YOUR SCORE and the line under MACHINE SCORE
PlayerLine(b) ==
    [hitBarrier |-> playerHitBarrier(b), step |-> b.playerExerciseDate]

MachineLine(gd, b) ==
    [hitBarrier |-> machineHitBarrier(gd, b),
     step |-> IF machineHitBarrier(gd, b) THEN machineBarrierStep(gd, b)
              ELSE b.machineExerciseDate]

\* nothing of a game is displayed (loading or error screen)
NoScreen ==
    [shows |-> "none", isPlayerTurn |-> FALSE, isBarrierHit |-> FALSE,
     machineDecision |-> "-", machineCurrentPayoff |-> 0,
     machineMarker |-> NULL, playerMarker |-> NULL,
     winner |-> "-", playerWins |-> FALSE, tie |-> FALSE, machineWins |-> FALSE,
     playerLine |-> [hitBarrier |-> FALSE, step |-> NULL],
     machineLine |-> [hitBarrier |-> FALSE, step |-> NULL]]

\* The render of App and GameBoard for the phase gs, the bundle gd and the
\* hook state b: ResultsDisplay in the phase 'results', otherwise the chart,
\* the info panel and the controls.
Screen(gs, gd, b) ==
    IF ~Rendered(gs, gd) THEN NoScreen
    ELSE IF gs = "results"
    THEN [NoScreen EXCEPT !.shows = "results",
                          !.winner = getWinnerClass(b),
                          !.playerWins = playerWins(b),
                          !.tie = tie(b),
                          !.machineWins = machineWins(b),
                          !.playerLine = PlayerLine(b),
                          !.machineLine = MachineLine(gd, b)]
    ELSE [NoScreen EXCEPT !.shows = "board",
                          !.isPlayerTurn = isPlayerTurn(gs, gd, b),
                          !.isBarrierHit = isBarrierHit(gd, b.currentStep),
                          !.machineDecision = getMachineDecisionText(b),
                          !.machineCurrentPayoff = getMachineCurrentPayoff(b),
                          !.machineMarker = MachineMarker(b),
                          !.playerMarker = PlayerMarker(b)]

\* --------------------------------------------------- GameBoard: the effects
\* Each effect takes the phase gs and hook state c of the render it runs in.

\* "Start game automatically", deps [gameState]
StartEffect(gs, w) ==
    IF gs = "ready"
    THEN [w EXCEPT !.gs = "playing", !.sched = @ (+) SetToBag({Timer("start", TRUE, 0)})]
    ELSE w

\* "Auto-advance animation", deps [currentStep, isAnimating, playerDecision, gameState].
\* The cleanup of the previous run clears the timer of animationRef, then the
\* body arms a new one unless it returns early.
AutoAdvanceEffect(gs, c, gd, w) ==
    LET waitForUser == /\ gs = "playing"
                       /\ Undecided(c)
                       /\ c.currentStep > 0
                       /\ c.currentStep < gd.game_info.nb_dates
    IN  [w EXCEPT !.anim = /\ ~waitForUser
                           /\ c.isAnimating
                           /\ c.currentStep < gd.game_info.nb_dates]

\* the automatic termination without its playerDecision tests
AutoTerminationEffectUnguarded(gs, c, gd, w) ==
    IF gs # "playing" THEN w
    ELSE LET w1 == IF isBarrierHit(gd, c.currentStep)
                   THEN handleBarrierHit(c, gd, w) ELSE w
         IN  IF c.currentStep = gd.game_info.nb_dates
             THEN handleMaturity(c, gd, w1) ELSE w1

\* "Check for automatic termination", deps [currentStep, gameState, playerDecision].
\* Both tests read the playerDecision of the render, so both handlers run
\* when the barrier is hit at the last date.
AutoTerminationEffect(gs, c, gd, w) ==
    IF gs # "playing" THEN w
    ELSE IF ~Undecided(c) THEN w
    ELSE LET w1 == IF isBarrierHit(gd, c.currentStep) /\ Undecided(c)
                   THEN handleBarrierHit(c, gd, w) ELSE w
         IN  IF c.currentStep = gd.game_info.nb_dates /\ Undecided(c)
             THEN handleMaturity(c, gd, w1) ELSE w1

\* "Lock machine payoff", deps [currentStep, machineExerciseDate, machinePayoff, payoffs_timeline]
LockMachinePayoffEffect(c, gd, w) ==
    LET displayStep == c.currentStep - 1
    IN  IF displayStep >= c.machineExerciseDate /\ c.machinePayoff = NULL
        THEN [w EXCEPT !.b.machinePayoff = At(gd.payoffs_timeline, c.machineExerciseDate)]
        ELSE w

\* the fast-forward finish with the knockout taken at the machine's date too
FastForwardFinishEffectAtMachineDate(c, gd, w) ==
    IF c.isAnimating /\ ~Undecided(c)
    THEN IF c.currentStep <= c.machineExerciseDate /\ isBarrierHit(gd, c.currentStep)
         THEN finishGame([w EXCEPT !.b.isAnimating = FALSE, !.b.machinePayoff = 0])
         ELSE IF c.currentStep >= c.machineExerciseDate
         THEN finishGame([w EXCEPT !.b.isAnimating = FALSE,
                                   !.b.machinePayoff =
                                       At(gd.payoffs_timeline, c.machineExerciseDate)])
         ELSE IF c.currentStep >= gd.game_info.nb_dates
         THEN finishGame([w EXCEPT !.b.isAnimating = FALSE,
                                   !.b.machinePayoff =
                                       At(gd.payoffs_timeline, c.machineExerciseDate)])
         ELSE w
    ELSE w

\* "When animation reaches machine exercise date or maturity",
\* deps [currentStep, isAnimating, playerDecision, machineExerciseDate]
FastForwardFinishEffect(c, gd, w) ==
    IF c.isAnimating /\ ~Undecided(c)
    THEN IF c.currentStep < c.machineExerciseDate /\ isBarrierHit(gd, c.currentStep)
         THEN finishGame([w EXCEPT !.b.isAnimating = FALSE, !.b.machinePayoff = 0])
         ELSE IF c.currentStep >= c.machineExerciseDate
         THEN finishGame([w EXCEPT !.b.isAnimating = FALSE,
                                   !.b.machinePayoff =
                                       At(gd.payoffs_timeline, c.machineExerciseDate)])
         ELSE IF c.currentStep >= gd.game_info.nb_dates
         THEN finishGame([w EXCEPT !.b.isAnimating = FALSE,
                                   !.b.machinePayoff =
                                       At(gd.payoffs_timeline, c.machineExerciseDate)])
         ELSE w
    ELSE w

\* An effect runs on the first render of the instance and when one of its
\* dependencies differs from the previous render.  P is the previous render
\* [gs, b, gd], C the current one, whose state the effect reads.
RunStartEffect(first, P, C, w) ==
    IF first \/ P.gs # C.gs
    THEN StartEffect(C.gs, w) ELSE w

RunAutoAdvanceEffect(first, P, C, w) ==
    IF first \/ <<P.b.currentStep, P.b.isAnimating, P.b.playerDecision, P.gs>>
                 # <<C.b.currentStep, C.b.isAnimating, C.b.playerDecision, C.gs>>
    THEN AutoAdvanceEffect(C.gs, C.b, C.gd, w) ELSE w

RunAutoTerminationEffect(first, P, C, w) ==
    IF first \/ <<P.b.currentStep, P.gs, P.b.playerDecision>>
                 # <<C.b.currentStep, C.gs, C.b.playerDecision>>
    THEN AutoTerminationEffect(C.gs, C.b, C.gd, w) ELSE w

RunLockMachinePayoffEffect(first, P, C, w) ==
    IF \/ first
       \/ <<P.b.currentStep, P.b.machineExerciseDate, P.b.machinePayoff>>
            # <<C.b.currentStep, C.b.machineExerciseDate, C.b.machinePayoff>>
       \/ P.gd = NoData
       \/ (P.gd # NoData /\ P.gd.payoffs_timeline # C.gd.payoffs_timeline)
    THEN LockMachinePayoffEffect(C.b, C.gd, w) ELSE w

RunFastForwardFinishEffect(first, P, C, w) ==
    IF first \/ <<P.b.currentStep, P.b.isAnimating, P.b.playerDecision, P.b.machineExerciseDate>>
                 # <<C.b.currentStep, C.b.isAnimating, C.b.playerDecision, C.b.machineExerciseDate>>
    THEN FastForwardFinishEffect(C.b, C.gd, w) ELSE w

\* One render of GameBoard followed by its effects, in the order of the
\* source; the updates of all of them are applied together.
EffectPass(first, P, C, sched, anim) ==
    RunFastForwardFinishEffect(first, P, C,
      RunLockMachinePayoffEffect(first, P, C,
        RunAutoTerminationEffect(first, P, C,
          RunAutoAdvanceEffect(first, P, C,
            RunStartEffect(first, P, C,
              [gs |-> C.gs, b |-> C.b, sched |-> sched, anim |-> anim])))))

\* Render and run effects until no effect updates the state any more:
\* Settle renders again when the pass w changed the state of the render C.
RECURSIVE RenderLoop(_, _, _, _, _)
Settle(C, w) ==
    IF w.gs = C.gs /\ w.b = C.b
    THEN w
    ELSE RenderLoop(FALSE, C, [gs |-> w.gs, b |-> w.b, gd |-> C.gd], w.sched, w.anim)

RenderLoop(first, P, C, sched, anim) == Settle(C, EffectPass(first, P, C, sched, anim))

\* The timers of an unmounted instance stay pending; their closures belong to
\* a component that is gone (the captured step can no longer be used).
\* Those of them that only set the state of the unmounted instance (start,
\* hold) do nothing when they fire, so one of each kind stands for all.
RECURSIVE Orphaned(_)
Orphaned(bag) ==
    IF \A t \in DOMAIN bag : ~t.live THEN bag
    ELSE LET t == CHOOSE x \in DOMAIN bag : x.live
             rest == [x \in DOMAIN bag \ {t} |-> bag[x]]
             dead == Timer(t.kind, FALSE, 0)
         IN  IF t.kind = "finish"
             THEN Orphaned(rest (+) [x \in {dead} |-> bag[t]])
             ELSE Orphaned([x \in DOMAIN rest \cup {dead} |->
                               IF x = dead THEN 1 ELSE rest[x]])

\* What React makes of a task that left the phase gs1, the bundle gd1 and the
\* hook state b1: App.jsx:75 decides whether a GameBoard is rendered; a
\* GameBoard that was not rendered before is a new instance with initial
\* state; one that is no longer rendered is unmounted (its effect cleanup
\* clears the animation timer).
React(gs1, gd1, b1, sched1) ==
    IF ~Rendered(gs1, gd1)
    THEN [gs |-> gs1, b |-> NoBoard, sched |-> Orphaned(sched1), anim |-> FALSE]
    ELSE RenderLoop(~Mounted,
                    [gs |-> gameState, b |-> gb, gd |-> gameData],
                    [gs |-> gs1, b |-> IF Mounted THEN b1 ELSE InitialBoard(gd1), gd |-> gd1],
                    sched1, Mounted /\ animTimer)

Commit(r, ev) ==
    /\ gameState' = r.gs
    /\ gb' = r.b
    /\ timers' = r.sched
    /\ animTimer' = r.anim
    /\ lastEvent' = ev
    /\ screen' = Screen(r.gs, gameData', r.b)
    /\ pending' = NoPending

Event(name, live) == [name |-> name, live |-> live]

\* number of pending hold timers of the mounted GameBoard instance
PendingHolds ==
    BagCardinality([t \in {x \in DOMAIN timers : x.kind = "hold" /\ x.live} |-> timers[t]])

OneLess(t) == timers (-) SetToBag({t})

\* pending finish timers, of the mounted instance or of earlier ones
PendingFinish ==
    BagCardinality([t \in {x \in DOMAIN timers : x.kind = "finish"} |-> timers[t]])

\* bound of the model on the timers an unmount may leave behind
MayUnmount == Mounted => PendingFinish <= MaxStaleFinish

\* a timer callback still has a component to update
Live(t) == t.live

\* pending finish timers of instances that are no longer mounted
StaleFinish ==
    BagCardinality([t \in {x \in DOMAIN timers : x.kind = "finish" /\ ~x.live} |-> timers[t]])

\* The browser runs a timer after every timer that was set before it with an
\* equal or smaller delay.  A hold timer (300 ms) is set while the human has
\* no record, the animation timer (500 ms) and the finish timer (1000 ms)
\* after the record was written; a timer of an unmounted instance was set
\* before every timer of the mounted one.
HoldTimersFirst == HoldDelay <= AnimDelay => PendingHolds = 0
StaleFinishFirst == FinishDelay <= StartDelay => StaleFinish = 0

\* ---------------------------------------------------------------- actions
Init ==
    /\ gameState = "loading"
    /\ gameData = NoData
    /\ inflight = 1
    /\ gb = NoBoard
    /\ timers = EmptyBag
    /\ animTimer = FALSE
    /\ lastEvent = Event("mount", TRUE)
    /\ screen = NoScreen
    /\ pending = NoPending

\* App.startNewGame up to the request: the phase becomes 'loading'
startNewGame(name, cap) ==
    /\ inflight < cap
    /\ MayUnmount
    /\ inflight' = inflight + 1
    /\ gameData' = gameData
    /\ Commit(React("loading", gameData, gb, timers), Event(name, TRUE))

\* App.startNewGame after the await: the response of one request arrives
Response ==
    /\ inflight > 0
    /\ \E bundle \in Bundles :
        /\ gameData' = bundle
        /\ Commit(React("ready", bundle, gb, timers), Event("response", TRUE))
    /\ inflight' = inflight - 1

\* App.startNewGame, catch branch
ResponseError ==
    /\ inflight > 0
    /\ MayUnmount
    /\ inflight' = inflight - 1
    /\ UNCHANGED gameData
    /\ Commit(React("error", gameData, gb, timers), Event("error", TRUE))

\* PLAY AGAIN of ResultsDisplay
playAgain(cap) == Mounted /\ gameState = "results" /\ startNewGame("playAgain", cap)

\* a game picked in the selection modal: handleSelectGame -> switchProduct
switchProduct(cap) == Mounted /\ gb.showGameSelection /\ startNewGame("switchProduct", cap)

\* TRY AGAIN of the error screen
TryAgain(cap) == gameState = "error" /\ startNewGame("tryAgain", cap)

\* SWITCH GAME of ControlPanel (disabled while animating) or of ResultsDisplay
handleOpenGameSelection ==
    /\ Mounted
    /\ ~gb.showGameSelection
    /\ gameState = "results" \/ ~gb.isAnimating
    /\ UNCHANGED <<gameData, inflight>>
    /\ Commit(React(gameState, gameData, [gb EXCEPT !.showGameSelection = TRUE], timers),
              Event("openGameSelection", TRUE))

\* onClose of the selection modal
CloseGameSelection ==
    /\ Mounted
    /\ gb.showGameSelection
    /\ UNCHANGED <<gameData, inflight>>
    /\ Commit(React(gameState, gameData, [gb EXCEPT !.showGameSelection = FALSE], timers),
              Event("closeGameSelection", TRUE))

\* A press of a control that is enabled by isPlayerTurn: a press of a disabled
\* (or, on the results screen, absent) control calls no handler.
Click(name, accepted, w) ==
    /\ UNCHANGED <<gameData, inflight>>
    /\ Commit(React(w.gs, gameData, w.b, w.sched), Event(name, accepted))

Hold ==
    /\ Mounted
    /\ LET accepted == isPlayerTurn(gameState, gameData, gb)
           w0 == [gs |-> gameState, b |-> gb, sched |-> timers, anim |-> animTimer]
       IN  /\ accepted => PendingHolds < MaxPendingHolds
           /\ Click("hold", accepted,
                    IF accepted THEN handleHold(gb, gameData, w0) ELSE w0)

Exercise ==
    /\ Mounted
    /\ LET accepted == isPlayerTurn(gameState, gameData, gb)
           w0 == [gs |-> gameState, b |-> gb, sched |-> timers, anim |-> animTimer]
       IN  Click("exercise", accepted,
                 IF accepted THEN handleExercise(gb, gameData, w0) ELSE w0)

\* the callbacks of the timers; setState of an unmounted instance does nothing
TimerTask(t, name, gs1, b1) ==
    /\ UNCHANGED <<gameData, inflight>>
    /\ Commit(React(gs1, gameData, b1, OneLess(t)), Event(name, Live(t)))

\* start effect, setTimeout 1000: setCurrentStep(1)
StartTimer ==
    \E t \in DOMAIN timers :
        /\ t.kind = "start"
        /\ Live(t) => StaleFinishFirst
        /\ TimerTask(t, "startTimer", gameState,
                     IF Live(t) THEN [gb EXCEPT !.currentStep = 1] ELSE gb)

\* handleHold, setTimeout 300
HoldTimer ==
    \E t \in DOMAIN timers :
        /\ t.kind = "hold"
        /\ TimerTask(t, "holdTimer", gameState,
                     IF Live(t)
                     THEN [gb EXCEPT !.showMachineDecision = TRUE,
                                     !.machineDecisionFlash = FALSE,
                                     !.revealedUpToStep = t.step,
                                     !.currentStep = @ + 1]
                     ELSE gb)

\* auto-advance effect, setTimeout 500; it belongs to the mounted instance,
\* the cleanup having cleared any other
AnimTimer ==
    /\ animTimer
    /\ HoldTimersFirst
    /\ UNCHANGED <<gameData, inflight>>
    /\ LET r == RenderLoop(FALSE, [gs |-> gameState, b |-> gb, gd |-> gameData],
                           [gs |-> gameState,
                            b |-> [gb EXCEPT !.currentStep = @ + 1, !.revealedUpToStep = @ + 1],
                            gd |-> gameData],
                           timers, FALSE)
       IN  Commit(r, Event("animTimer", TRUE))

\* finishGame, setTimeout 1000: onGameComplete() = App.handleGameComplete
FinishTimer ==
    \E t \in DOMAIN timers :
        /\ t.kind = "finish"
        /\ Live(t) => HoldTimersFirst /\ StaleFinishFirst
        /\ TimerTask(t, "finishTimer", "results", gb)

\* the tasks of the browser, with at most cap requests unanswered
Task(cap) ==
    \/ Response
    \/ ResponseError
    \/ playAgain(cap)
    \/ switchProduct(cap)
    \/ TryAgain(cap)
    \/ handleOpenGameSelection
    \/ CloseGameSelection
    \/ Hold
    \/ Exercise
    \/ StartTimer
    \/ HoldTimer
    \/ AnimTimer
    \/ FinishTimer

Next == Task(MaxInflight)

Spec == Init /\ [][Next]_vars

\* The same program when a request may be sent while another is unanswered
\* (PLAY AGAIN on a results screen that a finish timer brought up during
\* 'loading').
NextOverlap == Task(MaxInflight + 1)

SpecOverlap == Init /\ [][NextOverlap]_vars

\* Bundles that break the format: a payoff timeline one date short, and a
\* machine exercise date after the last date.
MalformedBundles ==
    { Bundle(GameInfo("Plain", "", NULL, NULL, NULL),
             <<Flat>>, [i \in 0 .. NbDates - 1 |-> i + 1], 2, NoSeq, NoSeq),
      Bundle(GameInfo("UpAndOutMinPut", "up", High, NULL, NULL),
             <<Flat, Flat>>, PayoffsUp, NbDates + 1, NoSeq, NoSeq) }

\* App.startNewGame after the await when the server answers with such a
\* bundle: the same code runs
ResponseMalformed ==
    /\ inflight > 0
    /\ \E bundle \in MalformedBundles :
        /\ gameData' = bundle
        /\ Commit(React("ready", bundle, gb, timers), Event("response", TRUE))
    /\ inflight' = inflight - 1

NextMalformed == Next \/ ResponseMalformed

SpecMalformed == Init /\ [][NextMalformed]_vars

\* A bundle of a call that is out of the money until after the machine's
\* date and is knocked out at date 1, before that date.
OutOfTheMoneyBundles ==
    { Bundle(GameInfo("DownAndOutBest2Call", "down", Low, NULL, NULL),
             <<Flat, Spike(1, Low)>>, [i \in Dates |-> IF i < NbDates THEN 0 ELSE 1],
             2, NoSeq, NoSeq) }

\* App.startNewGame after the await when the server answers with it
ResponseOutOfTheMoney ==
    /\ inflight > 0
    /\ \E bundle \in OutOfTheMoneyBundles :
        /\ gameData' = bundle
        /\ Commit(React("ready", bundle, gb, timers), Event("response", TRUE))
    /\ inflight' = inflight - 1

NextOutOfTheMoney == Next \/ ResponseOutOfTheMoney

SpecOutOfTheMoney == Init /\ [][NextOutOfTheMoney]_vars

\* ------------------------------------- a render and its effects, apart
\* useEffect callbacks run after the render that calls them is committed:
\* a state update made by a timer callback is rendered and displayed first,
\* and the effects of that render run in a later task.  Here the callback of
\* a hold timer is taken in these two halves; every other task waits for the
\* effects.

\* handleHold's timer callback and the render of its updates
HoldTimerCommit ==
    /\ pending = NoPending
    /\ Mounted
    /\ \E t \in DOMAIN timers :
        /\ t.kind = "hold"
        /\ Live(t)
        /\ gb' = [gb EXCEPT !.showMachineDecision = TRUE,
                            !.machineDecisionFlash = FALSE,
                            !.revealedUpToStep = t.step,
                            !.currentStep = @ + 1]
        /\ timers' = OneLess(t)
    /\ screen' = Screen(gameState, gameData, gb')
    /\ pending' = [gs |-> gameState, b |-> gb, gd |-> gameData]
    /\ lastEvent' = Event("holdTimer", TRUE)
    /\ UNCHANGED <<gameState, gameData, inflight, animTimer>>

\* the effects of the displayed render, and the renders their updates cause
PassiveEffects ==
    /\ pending # NoPending
    /\ UNCHANGED <<gameData, inflight>>
    /\ Commit(RenderLoop(FALSE, pending,
                         [gs |-> gameState, b |-> gb, gd |-> gameData], timers, animTimer),
              Event("effects", TRUE))

NextPaint ==
    \/ pending = NoPending /\ Next
    \/ HoldTimerCommit
    \/ PassiveEffects

SpecPaint == Init /\ [][NextPaint]_vars

\* -------------------------------------------- the render taken on its own
\* The displayed values are functions of the props; here the props are drawn
\* from bounded sets and one render is made of them.

Levels == {Low, Mid, High}

\* bundles of two assets with constant prices, one for every static barrier
\* variant and every pair of prices; the last family has the name of the
\* moving-barrier game and no barrier paths
BarrierBundles ==
    LET paths == {<<[i \in Dates |-> p], [i \in Dates |-> q]>> : p \in Levels, q \in Levels}
        infos == {GameInfo("UpAndOutMinPut", "up", T, NULL, NULL) : T \in Levels}
                 \cup {GameInfo("DownAndOutMinPut", "down", T, NULL, NULL) : T \in Levels}
                 \cup {GameInfo("DoubleBarrierMaxCall", "double", NULL, lu[1], lu[2]) :
                          lu \in {x \in Levels \X Levels : x[1] < x[2]}}
                 \cup {GameInfo("DoubleMovingBarrierDispersionCall", "double", NULL, Low, High)}
                 \cup {GameInfo("Plain", "", NULL, NULL, NULL)}
    IN  {Bundle(info, path, PayoffsUp, NbDates, NoSeq, NoSeq) : info \in infos, path \in paths}

\* a GameBoard in play at some step
InitBoard ==
    /\ gameState = "playing"
    /\ gameData \in BarrierBundles
    /\ gb \in {[InitialBoard(gameData) EXCEPT !.currentStep = k] : k \in Dates}

\* a GameBoard showing the results of any two records
InitResults ==
    /\ gameState = "results"
    /\ gameData \in Bundles
    /\ gb \in {[InitialBoard(gameData) EXCEPT !.playerDecision = d,
                                              !.playerExerciseDate = pd,
                                              !.playerPayoff = h,
                                              !.machineExerciseDate = md,
                                              !.machinePayoff = m] :
                  d \in {"exercise", "barrier_hit", "maturity"}, pd \in Dates,
                  h \in 0 .. MaxPayoff, md \in 1 .. NbDates, m \in 0 .. MaxPayoff}

InitRender ==
    /\ InitBoard \/ InitResults
    /\ inflight = 0
    /\ timers = EmptyBag
    /\ animTimer = FALSE
    /\ lastEvent = Event("mount", TRUE)
    /\ screen = NoScreen
    /\ pending = NoPending

Render ==
    /\ screen = NoScreen
    /\ screen' = Screen(gameState, gameData, gb)
    /\ UNCHANGED <<gameState, gameData, inflight, gb, timers, animTimer, lastEvent, pending>>

SpecRender == InitRender /\ [][Render]_vars

\* per-date thresholds: one level up to date 1, another from date 2 on
ThresholdSeqs == {[i \in Dates |-> IF i < 2 THEN a ELSE b] : a \in Levels, b \in Levels}

\* bundles of two assets with constant prices and barriers that move:
\*  - the game with a single moving upper barrier, which supplies the upper
\*    sequence only and the barrier's initial level as game_info.barrier;
\*  - the dispersion game, which supplies both sequences, the lower below the
\*    upper at every date
MovingBundles ==
    LET paths == {<<[i \in Dates |-> p], [i \in Dates |-> q]>> : p \in Levels, q \in Levels}
        ups == {Bundle(GameInfo("RandomlyMovingBarrierCall", "up", u[0], NULL, NULL),
                       path, PayoffsUp, NbDates, NoSeq, u) :
                   u \in ThresholdSeqs, path \in paths}
        doubles == {Bundle(GameInfo("DoubleMovingBarrierDispersionCall", "double", NULL, Low, High),
                           path, PayoffsUp, NbDates, lu[1], lu[2]) :
                       lu \in {x \in ThresholdSeqs \X ThresholdSeqs :
                                  \A i \in Dates : x[1][i] < x[2][i]},
                       path \in paths}
    IN  ups \cup doubles

\* a GameBoard in play at some step of a game with moving barriers
InitMoving ==
    /\ gameState = "playing"
    /\ gameData \in MovingBundles
    /\ gb \in {[InitialBoard(gameData) EXCEPT !.currentStep = k] : k \in Dates}
    /\ inflight = 0
    /\ timers = EmptyBag
    /\ animTimer = FALSE
    /\ lastEvent = Event("mount", TRUE)
    /\ screen = NoScreen
    /\ pending = NoPending

SpecMoving == InitMoving /\ [][Render]_vars

TypeOK ==
    /\ gameState \in {"loading", "playing", "results", "error"}
    /\ Mounted <=> gb # NoBoard
    /\ ~Mounted => \A t \in DOMAIN timers : ~t.live

\* ------------------------------------------------------------- properties
N == NbDates

\* the human's decision record: kind, date, payoff
HumanRecord == <<gb.playerDecision, gb.playerExerciseDate, gb.playerPayoff>>

\* the machine's decision record: date, payoff (its kind is not stored)
MachineRecord == <<gb.machineExerciseDate, gb.machinePayoff>>

HumanRecorded == gb.playerDecision # "null"
MachineRecorded == gb.machinePayoff # NULL

\* the same GameBoard instance is mounted before and after the step
SameSession == Mounted /\ Mounted'

TimerEvents == {"startTimer", "holdTimer", "animTimer", "finishTimer"}

\* AwaitingHumanInput: the controls are live and no reveal is pending
AwaitingHumanInput ==
    Mounted /\ isPlayerTurn(gameState, gameData, gb) /\ PendingHolds = 0

\* C1: the step pointer of a session never decreases and never exceeds N,
\* whatever hold, exercise and timer tasks are interleaved.
C1_StepPointerMonotoneAndCapped ==
    [][/\ Mounted' => gb'.currentStep <= gameData'.game_info.nb_dates
       /\ SameSession => gb'.currentStep >= gb.currentStep]_vars

\* C2: a decision record of the human or of the machine, once recorded, is
\* not changed by any later task of the session.
C2_RecordsAreFinal ==
    [][SameSession =>
         /\ HumanRecorded => HumanRecord' = HumanRecord
         /\ MachineRecorded => MachineRecord' = MachineRecord]_vars

\* C3: when the results are shown, both records are set and dated at most N.
C3_TerminatedHasBothRecords ==
    gameState = "results" =>
        /\ Mounted
        /\ gb.playerDecision # "null"
        /\ gb.playerPayoff \notin {NULL, UNDEFINED}
        /\ gb.playerExerciseDate \in 0 .. gameData.game_info.nb_dates
        /\ gb.machinePayoff \notin {NULL, UNDEFINED}
        /\ gb.machineExerciseDate \in 0 .. gameData.game_info.nb_dates

\* C4: both records are set exactly when the phase is Terminated (results
\* shown); before that, the delay before the results included, one is absent.
C4_BothRecordsIffTerminated ==
    (Mounted /\ HumanRecorded /\ MachineRecorded) <=> gameState = "results"

\* C5: a hold or exercise issued outside AwaitingHumanInput (reveal pending,
\* fast-forward, step 0, results) changes no state and schedules no timer.
C5_OutOfPhaseActionIsNoOp ==
    [][(lastEvent'.name \in {"hold", "exercise"} /\ ~AwaitingHumanInput)
         => UNCHANGED <<gameState, gameData, inflight, gb, timers, animTimer>>]_vars

\* C6: a hold-delay timer that fires after the human's record was written or
\* after termination advances nothing and reveals nothing.
C6_NoRevealAfterHumanRecord ==
    [][(lastEvent'.name = "holdTimer" /\ Mounted /\ (HumanRecorded \/ gameState = "results"))
         => gb' = gb]_vars

\* C7: a timer of a session that was reset or abandoned does nothing when it
\* fires: neither the phase nor the state of the new session changes.
C7_StaleTimerIsNoOp ==
    [][(lastEvent'.name \in TimerEvents /\ ~lastEvent'.live)
         => UNCHANGED <<gameState, gameData, inflight, gb, animTimer>>]_vars

\* C8: after an accepted exercise the human's record stays as that call wrote
\* it through every later task of the session, and a further exercise or hold
\* call changes nothing at all.
C8_ExerciseIdempotentAndFinal ==
    [][/\ (SameSession /\ gb.playerDecision = "exercise") => HumanRecord' = HumanRecord
       /\ (lastEvent'.name \in {"hold", "exercise"} /\ gb.playerDecision = "exercise")
            => UNCHANGED <<gameState, gameData, inflight, gb, timers, animTimer>>]_vars

\* a second exercise call after the first was accepted
C8_Witness ==
    /\ Mounted
    /\ gb.playerDecision = "exercise"
    /\ lastEvent = Event("exercise", FALSE)

\* pending finish timers of the mounted instance
LiveFinish ==
    IF Timer("finish", TRUE, 0) \in DOMAIN timers THEN timers[Timer("finish", TRUE, 0)] ELSE 0

\* C9: an accepted exercise at step s records the human as {exercise, s,
\* PayoffTimeline[s]} in that transition; if machineExerciseDate <= s the same
\* transition records the machine with PayoffTimeline[machineExerciseDate] and
\* starts the results timer, otherwise it leaves the machine's record as it
\* was (unset) and fast-forward begins.
C9_ExerciseRecordsImmediately ==
    [][(lastEvent'.name = "exercise" /\ lastEvent'.live) =>
         LET s == gb.currentStep
             med == gb.machineExerciseDate
         IN  /\ HumanRecord' = <<"exercise", s, gameData.payoffs_timeline[s]>>
             /\ IF med <= s
                THEN /\ gb'.machinePayoff = gameData.payoffs_timeline[med]
                     /\ LiveFinish' = LiveFinish + 1
                     /\ ~gb'.isAnimating
                ELSE /\ gb'.machinePayoff = gb.machinePayoff
                     /\ LiveFinish' = LiveFinish
                     /\ gb'.isAnimating /\ animTimer']_vars

\* an exercise accepted at the machine's exercise date: both records written
C9_Witness ==
    /\ lastEvent = Event("exercise", TRUE)
    /\ gb.playerDecision = "exercise"
    /\ gb.playerExerciseDate = gb.machineExerciseDate
    /\ gb.machinePayoff = gameData.payoffs_timeline[gb.machineExerciseDate]
    /\ LiveFinish = 1

\* C10: when the step pointer is at a step k in 0..N where the barrier
\* condition holds and the human had no earlier record, the human's record is
\* {barrierKnockout, k, 0}, also for k = N.
C10_KnockoutRecordedAtStep ==
    (/\ Mounted
     /\ gameState = "playing"
     /\ gb.currentStep \in 0 .. gameData.game_info.nb_dates
     /\ isBarrierHit(gameData, gb.currentStep)
     /\ ~(HumanRecorded /\ gb.playerExerciseDate < gb.currentStep))
    => HumanRecord = <<"barrier_hit", gb.currentStep, 0>>

\* the first step of the path at which the barrier condition holds, NULL if none
FirstKnockout(gd) ==
    LET hits == {k \in 0 .. gd.game_info.nb_dates : isBarrierHit(gd, k)}
    IN  IF hits = {} THEN NULL
        ELSE CHOOSE k \in hits : \A j \in hits : k <= j

\* the session ended with both records written and its results are shown
Terminated == Mounted /\ gameState = "results" /\ HumanRecorded /\ MachineRecorded

\* C11: when the barrier condition first holds at step k, no record of the
\* terminal state is dated after k: a machine scheduled to exercise after k
\* is recorded, and shown in the results, as knocked out at k with payoff 0.
C11_KnockoutPreemptsLaterDates ==
    (Terminated /\ FirstKnockout(gameData) # NULL) =>
        LET k == FirstKnockout(gameData)
        IN  /\ gb.playerExerciseDate <= k
            /\ gb.machineExerciseDate <= k
            /\ screen.playerLine.step <= k
            /\ screen.machineLine.step <= k

\* C12: when the step pointer reaches N while the human has no record and
\* the barrier condition does not hold at N, the same task records the human
\* as {maturity, N, PayoffTimeline[N]} and the machine with
\* PayoffTimeline[machineExerciseDate]; no human action is needed.
C12_MaturityRecordedAtLastDate ==
    [][(/\ SameSession
        /\ ~HumanRecorded
        /\ gb.currentStep # gameData'.game_info.nb_dates
        /\ gb'.currentStep = gameData'.game_info.nb_dates
        /\ ~isBarrierHit(gameData', gb'.currentStep))
       => /\ HumanRecord' = <<"maturity", gb'.currentStep,
                               At(gameData'.payoffs_timeline, gb'.currentStep)>>
          /\ gb'.machinePayoff =
                 At(gameData'.payoffs_timeline, gb'.machineExerciseDate)]_vars

\* the hold timer brought the step pointer to N and the maturity was recorded
C12_Witness ==
    /\ Mounted
    /\ lastEvent = Event("holdTimer", TRUE)
    /\ gb.currentStep = N
    /\ ~isBarrierHit(gameData, N)
    /\ HumanRecord = <<"maturity", N, gameData.payoffs_timeline[N]>>
    /\ gb.machinePayoff = gameData.payoffs_timeline[gb.machineExerciseDate]

\* the human's record was written before the machine's exercise date: the
\* session fast-forwards (isAnimating) from the date of that record
FastForwardSession ==
    /\ Mounted
    /\ gb.playerDecision \in {"exercise", "barrier_hit"}
    /\ gb.playerExerciseDate < gb.machineExerciseDate

\* the first step from the human's record on that is a knockout step, the
\* machine's exercise date or N
StopStep ==
    LET from == gb.playerExerciseDate
        stops == {t \in from .. N :
                    \/ isBarrierHit(gameData, t)
                    \/ t >= gb.machineExerciseDate
                    \/ t >= gameData.game_info.nb_dates}
    IN  CHOOSE t \in stops : \A u \in stops : t <= u

\* C13: a session in fast-forward advances to the first step that is a
\* knockout step, the machine's exercise date or N and stops there: the step
\* pointer never passes that step, and at that step the machine's record is
\* finalised.
C13_FastForwardStopsAtFirstStop ==
    FastForwardSession =>
        /\ gb.currentStep <= StopStep
        /\ gb.currentStep = StopStep => MachineRecorded /\ ~gb.isAnimating

\* C14: the winner shown is the human iff h > m, the machine iff m > h and a
\* tie iff h = m, for every pair of final payoffs and whatever the dates and
\* kinds of the two records; exactly one of the three holds.
C14_WinnerByPayoffOnly ==
    screen.shows = "results" =>
        LET h == gb.playerPayoff
            m == gb.machinePayoff
        IN  /\ screen.playerWins <=> h > m
            /\ screen.machineWins <=> m > h
            /\ screen.tie <=> h = m
            /\ Cardinality({x \in {"p", "m", "t"} :
                    \/ x = "p" /\ screen.playerWins
                    \/ x = "m" /\ screen.machineWins
                    \/ x = "t" /\ screen.tie}) = 1
            /\ screen.winner = IF h > m THEN "player"
                                ELSE IF m > h THEN "machine" ELSE "tie"

\* a tie between a knocked-out human and a machine that exercised at
\* another date
C14_Witness ==
    /\ screen.shows = "results"
    /\ screen.tie /\ screen.winner = "tie"
    /\ gb.playerDecision = "barrier_hit"
    /\ gb.playerExerciseDate # gb.machineExerciseDate

\* how the machine's play ended, from the bundle: knocked out when the
\* barrier condition first holds before its exercise date, an ordinary
\* exercise when it never holds up to that date
MachineKnockedOut ==
    FirstKnockout(gameData) # NULL /\ FirstKnockout(gameData) < gb.machineExerciseDate

MachineExercised ==
    FirstKnockout(gameData) = NULL \/ FirstKnockout(gameData) > gb.machineExerciseDate

\* C15: the results show a party as knocked out exactly when the kind of its
\* termination is a knockout, whatever its payoff: an ordinary exercise with
\* payoff 0 is not shown as a barrier hit.
C15_ClassificationByKind ==
    Terminated =>
        /\ screen.playerLine.hitBarrier <=> gb.playerDecision = "barrier_hit"
        /\ MachineExercised => ~screen.machineLine.hitBarrier
        /\ MachineKnockedOut => screen.machineLine.hitBarrier

\* the bundle breaks the format: a price sequence or the payoff timeline is
\* not of length N + 1, or the machine's exercise date is outside 1 .. N
IsMalformed(gd) ==
    LET n == gd.game_info.nb_dates
    IN  \/ \E a \in DOMAIN gd.path : DOMAIN gd.path[a] # 0 .. n
        \/ DOMAIN gd.payoffs_timeline # 0 .. n
        \/ gd.machine_exercise_date \notin 1 .. n

\* C16: a malformed bundle is rejected when the session is constructed: no
\* GameBoard is mounted for it and no timer of a session is pending.
C16_MalformedBundleRejected ==
    (gameData # NoData /\ IsMalformed(gameData)) =>
        /\ gb = NoBoard
        /\ \A t \in DOMAIN timers : ~t.live
        /\ screen = NoScreen

\* everything the board displays about the machine
MachineView(b) ==
    <<getMachineDecisionText(b), getMachineCurrentPayoff(b), MachineMarker(b)>>

\* C17: while the human is awaiting input at step s with no record, what is
\* displayed about the machine is the same for every machine exercise date
\* d >= s: the state of a session whose bundle differs only in that date
\* differs from this one in machineExerciseDate only (nothing of the machine
\* has acted before s), so its display is MachineView with d in its place.
C17_MachineDecisionNotRevealedEarly ==
    (/\ Mounted
     /\ screen.shows = "board"
     /\ screen.isPlayerTurn
     /\ gb.machineExerciseDate >= gb.currentStep)
    => \A d \in gb.currentStep .. gameData.game_info.nb_dates :
          MachineView([gb EXCEPT !.machineExerciseDate = d])
            = <<screen.machineDecision, screen.machineCurrentPayoff, screen.machineMarker>>

\* the machine's payoff is the one of its exercise date
MachineLocked ==
    gb.machinePayoff = At(gameData.payoffs_timeline, gb.machineExerciseDate)

\* C18: at every step after the machine's exercise date at which the human
\* has no record, HOLD and EXERCISE are enabled and the machine's payoff is
\* set; it is set to PayoffTimeline[machineExerciseDate], and once it is set
\* after the machine's date no task of the session changes it, a later
\* knockout included.
C18_MachineLockedHumanPlaysOn ==
    [][/\ (/\ Mounted'
            /\ gb'.currentStep > gb'.machineExerciseDate
            /\ gb'.currentStep <= gameData'.game_info.nb_dates
            /\ ~HumanRecorded')
           => (screen'.isPlayerTurn /\ MachineRecorded')
       /\ (SameSession /\ ~MachineRecorded /\ MachineRecorded'
              /\ gb'.currentStep > gb'.machineExerciseDate)
           => MachineLocked'
       /\ (SameSession /\ MachineRecorded /\ gb.currentStep > gb.machineExerciseDate)
           => gb'.machinePayoff = gb.machinePayoff]_vars

\* the human was knocked out after the machine's exercise date and the
\* machine's payoff is still the one of its date
C18_Witness ==
    /\ Mounted
    /\ gb.playerDecision = "barrier_hit"
    /\ gb.playerExerciseDate > gb.machineExerciseDate
    /\ MachineLocked
    /\ gb.machinePayoff # 0

PricesAt(gd, k) == {gd.path[a][k] : a \in DOMAIN gd.path}

SetMin(S) == CHOOSE x \in S : \A y \in S : x <= y
SetMax(S) == CHOOSE x \in S : \A y \in S : x >= y

\* C20: for the static barrier variants and every vector of prices, up(T) is
\* hit iff some price >= T, down(T) iff the minimum price <= T, double(L,U)
\* iff the maximum price >= U or the minimum price <= L, equality counting
\* as a hit, and without a barrier type the result is false.
C20_StaticBarrierHit ==
    (screen.shows = "board" /\ gameData.barrier_path_upper = NoSeq) =>
        LET info == gameData.game_info
            prices == PricesAt(gameData, gb.currentStep)
        IN  screen.isBarrierHit <=>
              \/ info.barrier_type = "up" /\ \E q \in prices : q >= info.barrier
              \/ info.barrier_type = "down" /\ SetMin(prices) <= info.barrier
              \/ info.barrier_type = "double"
                    /\ (SetMax(prices) >= info.barrier_up \/ SetMin(prices) <= info.barrier_down)

\* an up barrier reached exactly by one of two prices, and a double barrier
\* whose name is the moving-barrier game's but that has no barrier paths
C20_Witness ==
    /\ screen.shows = "board"
    /\ screen.isBarrierHit
    /\ \/ /\ gameData.game_info.barrier_type = "up"
          /\ SetMax(PricesAt(gameData, gb.currentStep)) = gameData.game_info.barrier
          /\ SetMin(PricesAt(gameData, gb.currentStep)) < gameData.game_info.barrier
       \/ /\ gameData.game_info.name = "DoubleMovingBarrierDispersionCall"
          /\ gameData.barrier_path_upper = NoSeq
          /\ SetMin(PricesAt(gameData, gb.currentStep)) = gameData.game_info.barrier_down

\* C21: for a moving up barrier the knockout test at step s compares the
\* prices with the threshold of step s: hit iff some asset price at s is at
\* or above upperThreshold[s].  (The only game with two moving barriers is
\* tested on the basket average, C22.)
C21_MovingBarrierUsesStepThreshold ==
    (/\ screen.shows = "board"
     /\ gameData.game_info.barrier_type = "up"
     /\ gameData.barrier_path_upper # NoSeq)
    => (screen.isBarrierHit <=>
          \E q \in PricesAt(gameData, gb.currentStep) :
              q >= gameData.barrier_path_upper[gb.currentStep])

\* twice the arithmetic mean of the two asset prices at step k
TwiceMeanAt(gd, k) == gd.path[1][k] + gd.path[2][k]

\* basket-average aggregation mode of a bundle
BasketAverage(gd) ==
    /\ gd.game_info.name = "DoubleMovingBarrierDispersionCall"
    /\ gd.barrier_path_upper # NoSeq
    /\ gd.barrier_path_lower # NoSeq

\* C22: in basket-average mode the knockout test at step s is made on the
\* arithmetic mean of the asset prices at s: hit iff mean >= upper[s] or
\* mean <= lower[s], whatever the individual prices.
C22_BasketAverageUsesMean ==
    (screen.shows = "board" /\ BasketAverage(gameData)) =>
        LET s == gb.currentStep
        IN  screen.isBarrierHit <=>
              \/ TwiceMeanAt(gameData, s) >= 2 * gameData.barrier_path_upper[s]
              \/ TwiceMeanAt(gameData, s) <= 2 * gameData.barrier_path_lower[s]

\* one price at the upper and one at the lower threshold of the step, the
\* mean strictly between them: no hit
C22_Witness ==
    /\ screen.shows = "board"
    /\ BasketAverage(gameData)
    /\ ~screen.isBarrierHit
    /\ SetMax(PricesAt(gameData, gb.currentStep)) >= gameData.barrier_path_upper[gb.currentStep]
    /\ SetMin(PricesAt(gameData, gb.currentStep)) <= gameData.barrier_path_lower[gb.currentStep]
    /\ gameData.barrier_path_upper[gb.currentStep] # gameData.barrier_path_upper[0]

\* C23: the barrier is evaluated at every revealed step in increasing order:
\* while the game is in play the step pointer is never at or past a step
\* where the barrier condition holds with the human still unrecorded or
\* recorded at a later step, and a knockout record of the human is dated at
\* the earliest step of the path at which the condition holds.
C23_KnockoutAtEarliestStep ==
    /\ (Mounted /\ gameState = "playing") =>
          \A k \in 0 .. gb.currentStep :
              isBarrierHit(gameData, k) => (HumanRecorded /\ gb.playerExerciseDate <= k)
    /\ (Mounted /\ gb.playerDecision = "barrier_hit") =>
          gb.playerExerciseDate = FirstKnockout(gameData)

\* the human held twice at step 1 and the first of the two pending advances
\* met the knockout at step 2
C23_Witness ==
    /\ Mounted
    /\ lastEvent = Event("holdTimer", TRUE)
    /\ PendingHolds = 1
    /\ HumanRecord = <<"barrier_hit", 2, 0>>
    /\ FirstKnockout(gameData) = 2

\* C24: the advance of the step pointer to k and the terminations that step
\* k forces are one transition for an observer: no displayed state has the
\* pointer at a step where the barrier condition holds, or at N, with the
\* human unrecorded and the controls enabled; and the date of the human's
\* record is the step pointer of the state in which it is recorded.
C24_AdvanceAndFinaliseAtomic ==
    [][/\ (/\ Mounted'
            /\ gameState' = "playing"
            /\ \/ isBarrierHit(gameData', gb'.currentStep)
               \/ gb'.currentStep = gameData'.game_info.nb_dates)
           => ~(~HumanRecorded' /\ screen'.isPlayerTurn)
       /\ (Mounted' /\ ~HumanRecorded /\ HumanRecorded')
           => gb'.playerExerciseDate = gb'.currentStep]_vars

\* C25: when the human is knocked out at a step k before the machine's
\* exercise date, the same task finalises the machine with payoff 0 at the
\* same step: the pointer is still k, the fast-forward is over and the
\* results timer is set; the results show a tie and the machine as knocked
\* out at step k.
C25_SameKnockoutPreemptsMachine ==
    [][/\ (/\ Mounted'
            /\ ~HumanRecorded
            /\ gb'.playerDecision = "barrier_hit"
            /\ gb'.playerExerciseDate < gb'.machineExerciseDate)
           => /\ gb'.machinePayoff = 0
              /\ gb'.currentStep = gb'.playerExerciseDate
              /\ ~gb'.isAnimating /\ ~animTimer'
              /\ LiveFinish' = LiveFinish + 1
       /\ (/\ Mounted'
            /\ gameState' = "results"
            /\ gb'.playerDecision = "barrier_hit"
            /\ gb'.playerExerciseDate < gb'.machineExerciseDate)
           => /\ gb'.machinePayoff = 0
              /\ screen'.tie /\ screen'.winner = "tie"
              /\ screen'.machineLine =
                    [hitBarrier |-> TRUE, step |-> gb'.playerExerciseDate]]_vars

\* the results of a session whose human was knocked out at step 2, before
\* the machine's date 3: a tie, the machine shown as knocked out at step 2
C25_Witness ==
    /\ Terminated
    /\ HumanRecord = <<"barrier_hit", 2, 0>>
    /\ gb.machineExerciseDate = 3
    /\ gb.machinePayoff = 0
    /\ screen.tie
    /\ screen.machineLine = [hitBarrier |-> TRUE, step |-> 2]

\* C26: the machine exercise date a session plays with is the one of its own
\* bundle: while a game is in play the date held by the session is the
\* machine_exercise_date of the loaded bundle, and no task changes it while
\* the bundle stays the same.
C26_MachineDateIsTheBundles ==
    [][/\ (Mounted' /\ gameState' = "playing")
           => gb'.machineExerciseDate = gameData'.machine_exercise_date
       /\ (SameSession /\ gameData' = gameData)
           => gb'.machineExerciseDate = gb.machineExerciseDate]_vars

\* C27: the interval of one fast-forward step is strictly smaller than the
\* delay between a hold and the step it advances to: whenever the timer of a
\* fast-forward step is armed, its delay is below the hold delay.
C27_FastForwardFasterThanHold ==
    (Mounted /\ animTimer) => AnimDelay < HoldDelay

\* the machine's payoff as the bundle gd with the exercise date d decides it
MachinePayoffOf(gd, d) ==
    IF FirstKnockout(gd) # NULL /\ FirstKnockout(gd) < d
    THEN 0 ELSE At(gd.payoffs_timeline, d)

\* C28: the machine's final payoff is a function of the bundle alone: every
\* terminated run, whatever the human did and when, ends with machine payoff
\* 0 if the barrier condition first holds before the bundle's machine
\* exercise date and with PayoffTimeline[machineExerciseDate] otherwise.
C28_MachinePayoffFromBundleAlone ==
    Terminated =>
        gb.machinePayoff = MachinePayoffOf(gameData, gameData.machine_exercise_date)

\* the same with the exercise date the session holds in place of the bundle's
C28_MachinePayoffFromSessionDate ==
    Terminated => gb.machinePayoff = MachinePayoffOf(gameData, gb.machineExerciseDate)

\* C29: in a fast-forward the knockout pre-empts the machine only before its
\* exercise date: when the barrier condition first holds exactly at the
\* machine's date, the fast-forward that reaches that step finalises the
\* machine with PayoffTimeline[machineExerciseDate] and stops.
C29_KnockoutAtMachineDateKeepsPayoff ==
    [][(/\ SameSession
        /\ FastForwardSession' /\ gb.isAnimating
        /\ FirstKnockout(gameData') = gb'.machineExerciseDate
        /\ gb.currentStep < gb'.machineExerciseDate
        /\ gb'.currentStep >= gb'.machineExerciseDate)
       => /\ gb'.machinePayoff = At(gameData'.payoffs_timeline, gb'.machineExerciseDate)
          /\ ~gb'.isAnimating /\ ~animTimer'
          /\ LiveFinish' = LiveFinish + 1]_vars

\* the human exercised at step 1, the fast-forward reached the machine's
\* date 2, where the barrier is hit, and the machine got its payoff
C29_Witness ==
    /\ FastForwardSession
    /\ lastEvent = Event("animTimer", TRUE)
    /\ gb.currentStep = gb.machineExerciseDate
    /\ FirstKnockout(gameData) = gb.machineExerciseDate
    /\ isBarrierHit(gameData, gb.currentStep)
    /\ gb.machinePayoff = gameData.payoffs_timeline[gb.machineExerciseDate]
    /\ gb.machinePayoff > 0

\* C30: every decision record is dated 1 or later: no termination of the
\* human or of the machine is recorded while the step pointer is 0, also
\* when the barrier condition holds for the prices of date 0.
C30_NoRecordAtDateZero ==
    Mounted =>
        /\ HumanRecorded => gb.playerExerciseDate >= 1
        /\ MachineRecorded => gb.machineExerciseDate >= 1
        /\ gb.currentStep = 0 => (~HumanRecorded /\ ~MachineRecorded)

====
